---- MODULE Spec2Model ----
(***************************************************************************)
(* Model of catt.py, the CVP2 authentication test tool: the suite built by *)
(* Tester.__init__, the loop of Tester.run_tests, Test.run,                *)
(* VerifyServerTest.run and Test._run_program, together with the OpenSSL   *)
(* s_client subprocess they drive.                                         *)
(*                                                                         *)
(* A transcript (the bytes s_client prints) is a sequence of lines; a line *)
(* is one of the tokens below, named after the byte string it carries.     *)
(* Console narration is kept as the per-case verdict: "TEST SKIPPED" is    *)
(* SKIPPED, the two "ERROR: OpenSSL ..." returns are ENVIRONMENT_ERROR,    *)
(* "TEST SUCCEEDED" is PASS and "TEST FAILED" is FAIL.  The debug flag     *)
(* only prints " ".join(args); with an absent argument it raises the same  *)
(* TypeError one statement before Popen does, so it is not a variable.     *)
(***************************************************************************)
EXTENDS Integers, Sequences, FiniteSets, TLC

\* ---------------------------------------------------------------- bounds
\* Seconds of subprocess run time the model follows.
MaxElapsed == 11

\* ------------------------------------------------------------- constants
WAIT_TIME == 10

None == "None"

\* Lines of a transcript.
UNKNOWN_DTCP == "unknown option -dtcp"
SIGN_DATA    == "Inside DTCPIPAuth_SignData"
X509_OK      == "Verify return code: 0 (ok)"
DTCP_CERT_OK == "DTCPIPAuth_VerifyRemoteCert returning 0"
CVP2_BIT_SET == "CVP2_DTCIP_VerifyRemoteCert(): CVP2 bit set"
\* A line matching HTTP_LINE_REGEX, e.g. "HTTP/1.0 200 OK".
HTTP_LINE    == "HTTP/1.0 200 OK"
\* A line holding the same text as the status line, but not at its start,
\* e.g. "> HTTP/1.0 200 OK": the regex (anchored with ^) does not match it,
\* bytes.split() on the matched text does.
HTTP_ECHO    == "> HTTP/1.0 200 OK"

\* Verdicts.
NO_VERDICT        == "NO_VERDICT"
SKIPPED           == "SKIPPED"
ENVIRONMENT_ERROR == "ENVIRONMENT_ERROR"
PASS              == "PASS"
FAIL              == "FAIL"

Verdicts == {SKIPPED, ENVIRONMENT_ERROR, PASS, FAIL}

\* What a file of the log directory that does not exist holds.
Absent == <<<<"absent">>>>
\* What a log file left over from an earlier run of the tool holds.
Stale  == <<<<"stale">>>>

VARIABLES
    ca_file,        \* Tester.ca_file: a path or None
    tests,          \* Tester.tests
    idx,            \* position of run_tests' for loop (1-based)
    pc,             \* position inside the running test's run()
    stage,          \* 1, or 2 in VerifyServerTest's second _run_program
    args,           \* the path-valued arguments of the s_client command line
    proc,           \* the subprocess: status, exit code, output
    elapsed,        \* seconds the running subprocess has been alive
    output,         \* run()'s local `output`
    fail,           \* run()'s local `fail`
    return_code,    \* _run_program's local `return_code`
    vs_return_code, \* VerifyServerTest.run's local `return_code`
    obs,            \* the invocations made by the running test, in order
    launched,       \* subprocesses launched, per test
    started,        \* calls of run(), per test
    verdicts,       \* verdict printed, per test
    files,          \* the log directory: log name -> transcripts written
    fault           \* the exception that ended run_tests, if any

vars == <<ca_file, tests, idx, pc, stage, args, proc, elapsed, output, fail,
          return_code, vs_return_code, obs, launched, started, verdicts,
          files, fault>>

\* The log directory when the tool starts: an earlier run, made with the
\* production CVP2 key and the test CVP2 key only, has left its three logs.
LogDirectory ==
    [n \in {"server-verify", "production-cvp2", "production-no-cvp2",
            "test-cvp2", "test-no-cvp2"} |->
        IF n \in {"server-verify", "production-cvp2", "test-cvp2"}
        THEN Stale ELSE Absent]

\* ------------------------------------------------------------ the suite
PathValues == {None, "path"}

\* The values of a path setting of the configuration: absent, or the path
\* (named here after the setting).
Setting(name) == {None, name}

MkTest(kind, log_name, library, key, should_succeed) ==
    [kind |-> kind, log_name |-> log_name, library |-> library,
     key |-> key, should_succeed |-> should_succeed]

\* Tester.__init__ expecting the test-key CVP2 case to succeed as well.
TesterTests_TestKeyAccepted(production_library_cvp2, production_library_no_cvp2, test_library_cvp2, test_library_no_cvp2, production_key_cvp2, production_key_no_cvp2, test_key_cvp2, test_key_no_cvp2) ==
    << MkTest("VerifyServerTest", "server-verify",
              production_library_cvp2, production_key_cvp2, TRUE),
       MkTest("Test", "production-cvp2",
              production_library_cvp2, production_key_cvp2, TRUE),
       MkTest("Test", "production-no-cvp2",
              production_library_no_cvp2, production_key_no_cvp2, FALSE),
       MkTest("Test", "test-cvp2",
              test_library_cvp2, test_key_cvp2, TRUE),
       MkTest("Test", "test-no-cvp2",
              test_library_no_cvp2, test_key_no_cvp2, FALSE) >>

\* Tester.__init__
TesterTests(production_library_cvp2, production_library_no_cvp2, test_library_cvp2, test_library_no_cvp2, production_key_cvp2, production_key_no_cvp2, test_key_cvp2, test_key_no_cvp2) ==
    << MkTest("VerifyServerTest", "server-verify",
              production_library_cvp2, production_key_cvp2, TRUE),
       MkTest("Test", "production-cvp2",
              production_library_cvp2, production_key_cvp2, TRUE),
       MkTest("Test", "production-no-cvp2",
              production_library_no_cvp2, production_key_no_cvp2, FALSE),
       MkTest("Test", "test-cvp2",
              test_library_cvp2, test_key_cvp2, FALSE),
       MkTest("Test", "test-no-cvp2",
              test_library_no_cvp2, test_key_no_cvp2, FALSE) >>

NumTests == 5

LogNames == {"server-verify", "production-cvp2", "production-no-cvp2",
             "test-cvp2", "test-no-cvp2"}

\* ---------------------------------------------------- the handshake client
\* Transcripts the client can print, per kind of invocation.
TestOutputs ==
    { <<SIGN_DATA, HTTP_LINE>>,
      <<SIGN_DATA>>,
      <<HTTP_LINE, SIGN_DATA>>,
      <<UNKNOWN_DTCP, SIGN_DATA, HTTP_LINE>>,
      <<SIGN_DATA, HTTP_LINE, UNKNOWN_DTCP>>,
      <<SIGN_DATA, HTTP_ECHO, UNKNOWN_DTCP, HTTP_LINE>> }

Stage1Outputs ==
    { <<X509_OK, HTTP_LINE>>,
      <<HTTP_LINE, X509_OK>>,
      <<X509_OK>>,
      <<>> }

Stage2Outputs ==
    { <<DTCP_CERT_OK, CVP2_BIT_SET, HTTP_LINE>>,
      <<DTCP_CERT_OK, CVP2_BIT_SET>>,
      <<DTCP_CERT_OK, HTTP_LINE, CVP2_BIT_SET>>,
      <<DTCP_CERT_OK, HTTP_LINE>>,
      <<CVP2_BIT_SET, HTTP_LINE>> }

\* The two test-key cases run the same code as "production-no-cvp2" with the
\* same should_succeed; they are given the two everyday transcripts only.
BriefOutputs ==
    { <<SIGN_DATA, HTTP_LINE>>,
      <<SIGN_DATA>> }

OutputsOf(t, stg) ==
    IF t.kind = "Test"
    THEN IF t.log_name \in {"test-cvp2", "test-no-cvp2"}
         THEN BriefOutputs ELSE TestOutputs
    ELSE IF stg = 1 THEN Stage1Outputs ELSE Stage2Outputs

ExitCodes == {0, 1}

NoProc == [status |-> "none", rc |-> 0, out |-> <<>>]

\* ------------------------------------------------------- pure functions
\* b"marker" in output
Contains(marker, out) == \E i \in DOMAIN out : out[i] = marker

\* HTTP_LINE_REGEX.search(output): position of the first status line, or 0.
HttpSearch(out) ==
    IF \E i \in DOMAIN out : out[i] = HTTP_LINE
    THEN CHOOSE i \in DOMAIN out :
            /\ out[i] = HTTP_LINE
            /\ \A j \in 1..(i - 1) : out[j] # HTTP_LINE
    ELSE 0

\* output.split(http_line.group(0), 1)[0]: what precedes the first occurrence
\* of the matched text, wherever in a line it occurs.
SplitAtStatus(out) ==
    LET hit(i) == out[i] \in {HTTP_LINE, HTTP_ECHO}
        first  == CHOOSE i \in DOMAIN out :
                     hit(i) /\ \A j \in 1..(i - 1) : ~hit(j)
    IN  SubSeq(out, 1, first - 1)

\* The first if/else of _run_program: the exit code against should_succeed.
ConnectionFail(rc, should_succeed) ==
    IF rc # 0 THEN should_succeed ELSE ~should_succeed

\* _run_program without its output.split(...): the whole transcript is
\* returned for the marker search.
RunProgramResult_NoSplit(out, rc, should_succeed) ==
    [output |-> out,
     fail   |-> IF HttpSearch(out) = 0 /\ rc = 0 THEN TRUE
                ELSE ConnectionFail(rc, should_succeed)]

\* _run_program without its `elif return_code == 0: fail = True`.
RunProgramResult_NoElif(out, rc, should_succeed) ==
    [output |-> IF HttpSearch(out) # 0 THEN SplitAtStatus(out) ELSE out,
     fail   |-> ConnectionFail(rc, should_succeed)]

\* _run_program's evaluation of (output, return_code): its return value.
RunProgramResult(out, rc, should_succeed) ==
    LET http_line == HttpSearch(out)
    IN  IF http_line # 0
        THEN [output |-> SplitAtStatus(out),
              fail   |-> ConnectionFail(rc, should_succeed)]
        ELSE [output |-> out,
              fail   |-> IF rc = 0 THEN TRUE
                         ELSE ConnectionFail(rc, should_succeed)]

\* The skip test reading the library instead of the key.
KeyMissing_Library(t) == t.library = None

\* `if self.key is None`
KeyMissing(t) == t.key = None

\* Test.run without its second sanity check.
SanityError_NoSignCheck(out) == Contains(UNKNOWN_DTCP, out)

\* The two sanity checks of Test.run.
SanityError(out) ==
    \/ Contains(UNKNOWN_DTCP, out)
    \/ ~Contains(SIGN_DATA, out)

\* `if fail: TEST FAILED else: TEST SUCCEEDED`
VerdictOf(f) == IF f THEN FAIL ELSE PASS

\* x509_pass looking for the DTCP marker instead of the X.509 one.
X509Pass_WrongMarker(out) == Contains(DTCP_CERT_OK, out)

\* x509_pass
X509Pass(out) == Contains(X509_OK, out)

\* VerifyServerTest.run without its CVP2 bit check.
Stage2Fail_NoCvp2(f, out) ==
    \/ f
    \/ ~Contains(DTCP_CERT_OK, out)

\* The two marker checks after VerifyServerTest's second run.
Stage2Fail(f, out) ==
    \/ f
    \/ ~Contains(DTCP_CERT_OK, out)
    \/ ~Contains(CVP2_BIT_SET, out)

\* The path-valued arguments of the command line built by run().
TestArgs(t)   == <<ca_file, t.library, t.key>>
VerifyArgs(t) == <<ca_file>>
DtcpArgs(t)   == <<t.library, t.key>>

\* Popen raises TypeError when an argument is None.
ArgsInvalid(a) == \E i \in DOMAIN a : a[i] = None

\* ------------------------------------------------------------------ Init
Init ==
    /\ ca_file \in PathValues
    /\ \E l1 \in Setting("ProductionLibCvp2"),
          l2 \in Setting("ProductionLibNoCvp2"),
          k1 \in Setting("ProductionKeyCvp2"),
          k2 \in Setting("ProductionKeyNoCvp2"),
          k3 \in Setting("TestKeyCvp2"),
          k4 \in Setting("TestKeyNoCvp2") :
          tests = TesterTests(l1, l2, "TestLibCvp2", "TestLibNoCvp2",
                              k1, k2, k3, k4)
    /\ idx = 1
    /\ pc = "start"
    /\ stage = 1
    /\ args = <<>>
    /\ proc = NoProc
    /\ elapsed = 0
    /\ output = <<>>
    /\ fail = FALSE
    /\ return_code = 0
    /\ vs_return_code = FALSE
    /\ obs = <<>>
    /\ launched = [i \in 1..NumTests |-> 0]
    /\ started = [i \in 1..NumTests |-> 0]
    /\ verdicts = [i \in 1..NumTests |-> NO_VERDICT]
    /\ files = LogDirectory
    /\ fault = "none"

cur == tests[idx]

\* --------------------------------------------------------------- actions
\* Test.run / VerifyServerTest.run up to the command line.
RunStart ==
    /\ pc = "start"
    /\ idx <= NumTests
    /\ started' = [started EXCEPT ![idx] = @ + 1]
    /\ IF KeyMissing(cur)
       THEN /\ verdicts' = [verdicts EXCEPT ![idx] = SKIPPED]
            /\ pc' = "return"
            /\ args' = args
       ELSE /\ args' = IF cur.kind = "Test" THEN TestArgs(cur)
                       ELSE VerifyArgs(cur)
            /\ pc' = "open"
            /\ verdicts' = verdicts
    /\ UNCHANGED <<ca_file, tests, idx, stage, proc, elapsed, output, fail,
                   return_code, vs_return_code, obs, launched, files, fault>>

\* Both runs opening the log with "ab".
OpenLog_Append ==
    /\ pc = "open"
    /\ files' = IF files[cur.log_name] = Absent
                THEN [files EXCEPT ![cur.log_name] = <<>>]
                ELSE files
    /\ pc' = "popen"
    /\ UNCHANGED <<ca_file, tests, idx, stage, args, proc, elapsed, output,
                   fail, return_code, vs_return_code, obs, launched, started,
                   verdicts, fault>>

\* open(filename, "wb") for the first run, open(filename, "ab") for the second.
OpenLog ==
    /\ pc = "open"
    /\ files' = IF stage = 1
                THEN [files EXCEPT ![cur.log_name] = <<>>]
                ELSE IF files[cur.log_name] = Absent
                     THEN [files EXCEPT ![cur.log_name] = <<>>]
                     ELSE files
    /\ pc' = "popen"
    /\ UNCHANGED <<ca_file, tests, idx, stage, args, proc, elapsed, output,
                   fail, return_code, vs_return_code, obs, launched, started,
                   verdicts, fault>>

\* subprocess.Popen(args, ...) with an argument that is None: TypeError,
\* which nothing catches.
PopenTypeError ==
    /\ pc = "popen"
    /\ ArgsInvalid(args)
    /\ fault' = "TypeError"
    /\ pc' = "aborted"
    /\ UNCHANGED <<ca_file, tests, idx, stage, args, proc, elapsed, output,
                   fail, return_code, vs_return_code, obs, launched, started,
                   verdicts, files>>

\* subprocess.Popen(args, ...) when the openssl binary is missing or not
\* executable: OSError, which nothing catches.
PopenOSError ==
    /\ pc = "popen"
    /\ ~ArgsInvalid(args)
    /\ fault' = "OSError"
    /\ pc' = "aborted"
    /\ UNCHANGED <<ca_file, tests, idx, stage, args, proc, elapsed, output,
                   fail, return_code, vs_return_code, obs, launched, started,
                   verdicts, files>>

\* subprocess.Popen(args, ...) starting the client.
Popen ==
    /\ pc = "popen"
    /\ ~ArgsInvalid(args)
    /\ proc' = [status |-> "running", rc |-> 0, out |-> <<>>]
    /\ elapsed' = 0
    /\ launched' = [launched EXCEPT ![idx] = @ + 1]
    /\ pc' = "communicate"
    /\ UNCHANGED <<ca_file, tests, idx, stage, args, output, fail,
                   return_code, vs_return_code, obs, started, verdicts,
                   files, fault>>

\* A second passes while the client runs.
Tick ==
    /\ proc.status = "running"
    /\ elapsed < MaxElapsed
    /\ elapsed' = elapsed + 1
    /\ UNCHANGED <<ca_file, tests, idx, pc, stage, args, proc, output, fail,
                   return_code, vs_return_code, obs, launched, started,
                   verdicts, files, fault>>

\* The client exits, having printed a transcript.
ProcExit ==
    /\ proc.status = "running"
    /\ \E rc \in ExitCodes, out \in OutputsOf(cur, stage) :
          proc' = [status |-> "exited", rc |-> rc, out |-> out]
    /\ UNCHANGED <<ca_file, tests, idx, pc, stage, args, elapsed, output,
                   fail, return_code, vs_return_code, obs, launched, started,
                   verdicts, files, fault>>

\* _run_program evaluating what the log file holds after the write, instead
\* of the output of this run alone.
Communicate_ReadsLog ==
    /\ pc = "communicate"
    /\ proc.status = "exited"
    /\ LET f == files[cur.log_name]
       IN  output' = IF Len(f) = 0 THEN proc.out ELSE f[Len(f)] \o proc.out
    /\ return_code' = proc.rc
    /\ files' = [files EXCEPT ![cur.log_name] = Append(@, proc.out)]
    /\ obs' = Append(obs, [rc |-> proc.rc, out |-> proc.out])
    /\ proc' = NoProc
    /\ elapsed' = 0
    /\ pc' = "eval"
    /\ UNCHANGED <<ca_file, tests, idx, stage, args, fail, vs_return_code,
                   launched, started, verdicts, fault>>

\* _run_program reading what the client has printed so far without waiting
\* for it to exit.
Communicate_NoWait ==
    /\ pc = "communicate"
    /\ proc.status \in {"running", "exited"}
    /\ output' = proc.out
    /\ return_code' = proc.rc
    /\ files' = [files EXCEPT ![cur.log_name] = Append(@, proc.out)]
    /\ obs' = Append(obs, [rc |-> proc.rc, out |-> proc.out])
    /\ proc' = IF proc.status = "exited" THEN NoProc ELSE proc
    /\ elapsed' = IF proc.status = "exited" THEN 0 ELSE elapsed
    /\ pc' = "eval"
    /\ UNCHANGED <<ca_file, tests, idx, stage, args, fail, vs_return_code,
                   launched, started, verdicts, fault>>

\* _run_program without its log.write(output).
Communicate_NoWrite ==
    /\ pc = "communicate"
    /\ proc.status = "exited"
    /\ output' = proc.out
    /\ return_code' = proc.rc
    /\ obs' = Append(obs, [rc |-> proc.rc, out |-> proc.out])
    /\ proc' = NoProc
    /\ elapsed' = 0
    /\ pc' = "eval"
    /\ UNCHANGED <<ca_file, tests, idx, stage, args, fail, vs_return_code,
                   launched, started, verdicts, files, fault>>

\* p.communicate(input=...) returns once the client has exited; p.wait(WAIT_TIME)
\* then returns the exit code at once; log.write(output).
Communicate ==
    /\ pc = "communicate"
    /\ proc.status = "exited"
    /\ output' = proc.out
    /\ return_code' = proc.rc
    /\ files' = [files EXCEPT ![cur.log_name] = Append(@, proc.out)]
    /\ obs' = Append(obs, [rc |-> proc.rc, out |-> proc.out])
    /\ proc' = NoProc
    /\ elapsed' = 0
    /\ pc' = "eval"
    /\ UNCHANGED <<ca_file, tests, idx, stage, args, fail, vs_return_code,
                   launched, started, verdicts, fault>>

\* VerifyServerTest.run taking the second _run_program's fail into account.
Evaluate_Stage2Counts ==
    /\ pc = "eval"
    /\ LET r == RunProgramResult(output, return_code, cur.should_succeed)
       IN  /\ output' = r.output
           /\ IF stage = 1
              THEN /\ fail' = r.fail
                   /\ vs_return_code' = vs_return_code
                   /\ pc' = IF cur.kind = "Test" THEN "check" ELSE "x509"
              ELSE /\ vs_return_code' = r.fail
                   /\ fail' = (fail \/ r.fail)
                   /\ pc' = "markers"
    /\ UNCHANGED <<ca_file, tests, idx, stage, args, proc, elapsed,
                   return_code, obs, launched, started, verdicts, files,
                   fault>>

\* The rest of _run_program and the assignment of its result in run().
Evaluate ==
    /\ pc = "eval"
    /\ LET r == RunProgramResult(output, return_code, cur.should_succeed)
       IN  /\ output' = r.output
           /\ IF stage = 1
              THEN /\ fail' = r.fail
                   /\ vs_return_code' = vs_return_code
                   /\ pc' = IF cur.kind = "Test" THEN "check" ELSE "x509"
              ELSE /\ vs_return_code' = r.fail
                   /\ fail' = fail
                   /\ pc' = "markers"
    /\ UNCHANGED <<ca_file, tests, idx, stage, args, proc, elapsed,
                   return_code, obs, launched, started, verdicts, files,
                   fault>>

\* Test.run after _run_program.
SanityCheck ==
    /\ pc = "check"
    /\ verdicts' = [verdicts EXCEPT ![idx] =
                       IF SanityError(output) THEN ENVIRONMENT_ERROR
                       ELSE VerdictOf(fail)]
    /\ pc' = "return"
    /\ UNCHANGED <<ca_file, tests, idx, stage, args, proc, elapsed, output,
                   fail, return_code, vs_return_code, obs, launched, started,
                   files, fault>>

\* VerifyServerTest.run after its first _run_program.
X509Check ==
    /\ pc = "x509"
    /\ IF X509Pass(output)
       THEN /\ verdicts' = [verdicts EXCEPT ![idx] = VerdictOf(fail)]
            /\ pc' = "return"
            /\ UNCHANGED <<args, stage>>
       ELSE /\ args' = args \o DtcpArgs(cur)
            /\ stage' = 2
            /\ pc' = "open"
            /\ verdicts' = verdicts
    /\ UNCHANGED <<ca_file, tests, idx, proc, elapsed, output, fail,
                   return_code, vs_return_code, obs, launched, started,
                   files, fault>>

\* VerifyServerTest.run after its second _run_program.
Stage2Check ==
    /\ pc = "markers"
    /\ fail' = Stage2Fail(fail, output)
    /\ verdicts' = [verdicts EXCEPT ![idx] = VerdictOf(fail')]
    /\ pc' = "return"
    /\ UNCHANGED <<ca_file, tests, idx, stage, args, proc, elapsed, output,
                   return_code, vs_return_code, obs, launched, started,
                   files, fault>>

\* run() returns to the for loop of run_tests.
NextTest ==
    /\ pc = "return"
    /\ idx' = idx + 1
    /\ pc' = IF idx < NumTests THEN "start" ELSE "finished"
    /\ stage' = 1
    /\ args' = <<>>
    /\ output' = <<>>
    /\ fail' = FALSE
    /\ return_code' = 0
    /\ vs_return_code' = FALSE
    /\ obs' = <<>>
    /\ UNCHANGED <<ca_file, tests, proc, elapsed, launched, started,
                   verdicts, files, fault>>

Next ==
    \/ RunStart
    \/ OpenLog
    \/ PopenTypeError
    \/ PopenOSError
    \/ Popen
    \/ Tick
    \/ ProcExit
    \/ Communicate
    \/ Evaluate
    \/ SanityCheck
    \/ X509Check
    \/ Stage2Check
    \/ NextTest

Spec == Init /\ [][Next]_vars

TypeOK ==
    /\ idx \in 1..(NumTests + 1)
    /\ pc \in {"start", "open", "popen", "communicate", "eval", "check",
               "x509", "markers", "return", "finished", "aborted"}
    /\ stage \in {1, 2}
    /\ elapsed \in 0..MaxElapsed
    /\ \A i \in 1..NumTests : verdicts[i] \in Verdicts \cup {NO_VERDICT}
\* ---------------------------------------------------------------- claims
\* A status line occurs in the transcript.
HasStatus(out) == \E i \in DOMAIN out : out[i] = HTTP_LINE

\* The part of a transcript the harness searches for markers: the whole
\* transcript when it has no status line, else what precedes the first
\* occurrence of the status line's text.
SearchedPart(out) ==
    IF ~HasStatus(out) THEN out
    ELSE LET clean(k) == \A j \in 1..k :
                            out[j] \notin {HTTP_LINE, HTTP_ECHO}
             n == CHOOSE k \in 0..Len(out) :
                     clean(k) /\ (k = Len(out) \/ ~clean(k + 1))
         IN  SubSeq(out, 1, n)

\* The running test has just printed its verdict (or returned without one).
AtVerdict == pc = "return"

IsClient == idx <= NumTests /\ cur.kind = "Test"
IsVerify == idx <= NumTests /\ cur.kind = "VerifyServerTest"

\* C1: a test whose key is None ends SKIPPED, and no subprocess is launched
\* for it: it never gets past the skip test, for either class of test.
C1_AbsentKeySkipped ==
    \A i \in 1..NumTests :
        tests[i].key = None =>
            /\ launched[i] = 0
            /\ verdicts[i] \in {NO_VERDICT, SKIPPED}
            /\ (started[i] > 0 => verdicts[i] = SKIPPED)
            /\ (idx = i => pc \in {"start", "return"})

C1_Witness ==
    /\ pc = "finished"
    /\ \E i, j \in 1..NumTests :
          /\ tests[i].kind = "VerifyServerTest"
          /\ tests[j].kind = "Test"
          /\ tests[i].key = None /\ verdicts[i] = SKIPPED
          /\ tests[j].key = None /\ verdicts[j] = SKIPPED
\* A sanity condition of Test.run is violated in these lines.
SanityViolated(lines) ==
    Contains(UNKNOWN_DTCP, lines) \/ ~Contains(SIGN_DATA, lines)

\* C2 as stated: for every test that was not skipped, the server
\* verification included, a transcript in which "unknown option -dtcp" occurs
\* or "Inside DTCPIPAuth_SignData" does not gives ENVIRONMENT_ERROR.
C2_SanityAllCases ==
    (AtVerdict /\ verdicts[idx] # SKIPPED) =>
        ((\E k \in DOMAIN obs : SanityViolated(obs[k].out))
            => verdicts[idx] = ENVIRONMENT_ERROR)

\* C2 as amended: for every client test (class Test) that was not skipped, if
\* the part of the transcript the harness searches (what precedes the first
\* occurrence of the status line's text, the whole transcript when there is
\* no status line) holds "unknown option -dtcp" or lacks
\* "Inside DTCPIPAuth_SignData", the verdict is ENVIRONMENT_ERROR whatever the
\* exit code, and neither PASS nor FAIL.
C2_SanityClientCases ==
    (AtVerdict /\ IsClient /\ verdicts[idx] # SKIPPED) =>
        (SanityViolated(SearchedPart(obs[1].out))
            => verdicts[idx] = ENVIRONMENT_ERROR)

C2_Witness ==
    /\ AtVerdict /\ IsClient /\ cur.should_succeed
    /\ Len(obs) = 1
    /\ obs[1].rc = 0 /\ HasStatus(obs[1].out)
    /\ ~Contains(SIGN_DATA, SearchedPart(obs[1].out))
    /\ verdicts[idx] = ENVIRONMENT_ERROR

\* C3 as stated: a client test that was neither skipped nor an environment
\* error is PASS iff (exit code 0 and status line present) = should_succeed,
\* else FAIL.
C3_PassIffActualEqualsExpected ==
    (AtVerdict /\ IsClient
        /\ verdicts[idx] \notin {SKIPPED, ENVIRONMENT_ERROR}) =>
        LET actual == obs[1].rc = 0 /\ HasStatus(obs[1].out)
        IN  verdicts[idx] =
                IF actual = cur.should_succeed THEN PASS ELSE FAIL

\* C3 as amended: such a test is PASS iff either the exit code is 0, a status
\* line is present and should_succeed, or the exit code is not 0 and not
\* should_succeed; else FAIL.  Exit code 0 without a status line is FAIL
\* whatever should_succeed.
C3_PassTable ==
    (AtVerdict /\ IsClient
        /\ verdicts[idx] \notin {SKIPPED, ENVIRONMENT_ERROR}) =>
        LET rc     == obs[1].rc
            status == HasStatus(obs[1].out)
            pass   == \/ rc = 0 /\ status /\ cur.should_succeed
                      \/ rc # 0 /\ ~cur.should_succeed
        IN  verdicts[idx] = IF pass THEN PASS ELSE FAIL

C3_Witness ==
    /\ AtVerdict /\ IsClient /\ ~cur.should_succeed
    /\ Len(obs) = 1
    /\ obs[1].rc = 0 /\ ~HasStatus(obs[1].out)
    /\ verdicts[idx] = FAIL

\* C4: when an invocation of the running test (the one of a client test,
\* the first or the second of the server verification) exited 0 without a
\* status line in its transcript, the verdict is not PASS.
C4_NoStatusNeverPass ==
    (AtVerdict /\ \E k \in DOMAIN obs :
                     obs[k].rc = 0 /\ ~HasStatus(obs[k].out))
        => verdicts[idx] # PASS

\* C5: a client still running when WAIT_TIME seconds have passed is
\* terminated: no subprocess runs beyond the wait budget.
C5_TimeoutTerminates ==
    proc.status = "running" => elapsed <= WAIT_TIME

\* C6: a client that fails to start does not end run_tests: the test gets
\* the verdict ENVIRONMENT_ERROR and the loop goes on.
C6_StartFailureNotFatal ==
    fault = "OSError" =>
        /\ pc # "aborted"
        /\ verdicts[idx] = ENVIRONMENT_ERROR

\* C7: in the server verification, when the searched part of the first
\* transcript holds "Verify return code: 0 (ok)", there is no second run:
\* one subprocess is launched and the verdict is the first run's.
C7_X509PassSkipsStageTwo ==
    (IsVerify /\ Len(obs) >= 1
        /\ Contains(X509_OK, SearchedPart(obs[1].out))) =>
        /\ stage = 1
        /\ Len(obs) = 1
        /\ launched[idx] = 1
        /\ pc \in {"eval", "x509", "return"}
        /\ (AtVerdict =>
              verdicts[idx] =
                 IF obs[1].rc = 0 /\ HasStatus(obs[1].out)
                 THEN PASS ELSE FAIL)

C7_Witness ==
    /\ AtVerdict /\ IsVerify
    /\ Len(obs) = 1
    /\ Contains(X509_OK, SearchedPart(obs[1].out))
    /\ verdicts[idx] = PASS

\* C8: in the server verification, when the searched part of the first
\* transcript lacks "Verify return code: 0 (ok)", a second subprocess is run,
\* the verdict is PASS only if its transcript holds both
\* "DTCPIPAuth_VerifyRemoteCert returning 0" and "CVP2 bit set", and is FAIL
\* when either is missing.
C8_StageTwoMarkers ==
    /\ (IsVerify /\ Len(obs) >= 1 /\ pc \notin {"eval", "x509"}
            /\ ~Contains(X509_OK, SearchedPart(obs[1].out))) => stage = 2
    /\ (AtVerdict /\ IsVerify /\ verdicts[idx] # SKIPPED
            /\ ~Contains(X509_OK, SearchedPart(obs[1].out))) =>
        /\ Len(obs) = 2
        /\ launched[idx] = 2
        /\ (verdicts[idx] = PASS =>
              /\ Contains(DTCP_CERT_OK, obs[2].out)
              /\ Contains(CVP2_BIT_SET, obs[2].out))
        /\ (~Contains(DTCP_CERT_OK, obs[2].out)
              \/ ~Contains(CVP2_BIT_SET, obs[2].out)
                  => verdicts[idx] = FAIL)

C8_Witness ==
    /\ AtVerdict /\ IsVerify /\ Len(obs) = 2
    /\ obs[1].rc = 0 /\ HasStatus(obs[1].out)
    /\ Contains(DTCP_CERT_OK, obs[2].out)
    /\ ~Contains(CVP2_BIT_SET, obs[2].out)
    /\ verdicts[idx] = FAIL

\* C9: run_tests runs every test exactly once, in declared order: when it
\* has stopped, each test has been run once, and at any time the tests run
\* so far are the first ones of the list.
C9_EveryCaseOnceInOrder ==
    /\ \A i \in 1..NumTests : started[i] <= 1
    /\ \A i, j \in 1..NumTests : (i < j /\ started[j] = 1) => started[i] = 1
    /\ (pc \in {"finished", "aborted"}
            => \A i \in 1..NumTests : started[i] = 1)

\* C10: an absent path (CA file, library, key directory) means "not
\* supplied": running a test with one never ends in an uncaught fault.
C10_AbsentPathNoFault ==
    (ca_file = None \/ \E i \in 1..NumTests :
                          tests[i].library = None \/ tests[i].key = None)
        => fault # "TypeError"
\* The transcripts of the running test's invocations, in order.
Transcripts == [k \in 1..Len(obs) |-> obs[k].out]

\* C11: once a transcript has been captured it is in the test's log file,
\* so that whenever run() evaluates a transcript (exit code, status line,
\* markers, verdict) the log already holds it, whatever the verdict.
C11_LoggedBeforeEvaluation ==
    /\ (idx <= NumTests /\ Len(obs) >= 1)
          => files[cur.log_name] = Transcripts
    /\ pc \in {"eval", "check", "x509", "markers"} => Len(obs) = stage

C11_Witness ==
    /\ pc = "eval"
    /\ verdicts[idx] = NO_VERDICT
    /\ Len(obs) = 1 /\ obs[1].out # <<>>
    /\ files[cur.log_name] = <<obs[1].out>>

\* C12: every execution of a test ends with exactly one verdict out of
\* SKIPPED, ENVIRONMENT_ERROR, PASS and FAIL: a test that was run and is no
\* longer running has a verdict.
C12_ExactlyOneVerdict ==
    \A i \in 1..NumTests :
        (started[i] = 1 /\ (idx # i \/ pc \in {"return", "aborted"}))
            => verdicts[i] \in Verdicts
\* What a log file holds: nothing when it does not exist.
ContentOf(f) == IF f = Absent THEN <<>> ELSE f

\* The log names of the suite are pairwise distinct.
DistinctLogNames ==
    \A i, j \in 1..NumTests :
        i # j => tests[i].log_name # tests[j].log_name

\* A step changes no log file but the running test's, and that one only
\* before its verdict.
OnlyOwnLogWritten ==
    \A n \in LogNames :
        files'[n] # files[n] =>
            /\ idx <= NumTests
            /\ n = cur.log_name
            /\ verdicts[idx] = NO_VERDICT

FileAfterTest ==
    (idx <= NumTests /\ pc \in {"return", "aborted"}) =>
        files[cur.log_name] =
            IF verdicts[idx] = SKIPPED THEN LogDirectory[cur.log_name]
            ELSE Transcripts

StartsSubprocess ==
    \E i \in 1..NumTests : launched'[i] = launched[i] + 1

\* A subprocess is launched only when none is alive, and the second one of
\* the server verification only when the first transcript has been captured,
\* logged and searched for "Verify return code: 0 (ok)" without success.
LaunchedWhenIdle ==
    StartsSubprocess =>
        /\ proc.status = "none"
        /\ (stage = 2 =>
              /\ IsVerify
              /\ Len(obs) = 1
              /\ files[cur.log_name] = <<obs[1].out>>
              /\ ~Contains(X509_OK, SearchedPart(obs[1].out)))

\* C14: at most one client subprocess is alive at any time: the harness sits
\* in communicate() while one is, and the next one (the second run of the
\* server verification included) is launched only after the previous one has
\* exited and its transcript has been logged and evaluated.
C14_OneSubprocessAtATime ==
    /\ [](proc.status # "none" => pc = "communicate")
    /\ [][LaunchedWhenIdle]_vars

C14_Witness ==
    /\ IsVerify /\ stage = 2
    /\ proc.status = "running"
    /\ Len(obs) = 1
    /\ launched[idx] = 2
\* The lines of a transcript before its first status line.
BeforeStatus(out) ==
    LET first == CHOOSE i \in DOMAIN out :
                    /\ out[i] = HTTP_LINE
                    /\ \A j \in 1..(i - 1) : out[j] # HTTP_LINE
    IN  SubSeq(out, 1, first - 1)

\* C15: when a transcript has a status line, a marker that does not occur
\* before that line counts as absent.  Client test: without
\* "Inside DTCPIPAuth_SignData" before the status line the verdict is
\* ENVIRONMENT_ERROR, and "unknown option -dtcp" at or after it does not make
\* it one.  Server verification: without "Verify return code: 0 (ok)" before
\* the status line the second run is made, and the verdict is FAIL unless
\* both second-run markers occur before the second status line.
C15_MarkersBeforeStatusOnly ==
    /\ (AtVerdict /\ IsClient /\ Len(obs) = 1 /\ HasStatus(obs[1].out)) =>
          /\ ~Contains(SIGN_DATA, BeforeStatus(obs[1].out))
                => verdicts[idx] = ENVIRONMENT_ERROR
          /\ (~Contains(UNKNOWN_DTCP, BeforeStatus(obs[1].out))
                /\ Contains(SIGN_DATA, SearchedPart(obs[1].out)))
                => verdicts[idx] \in {PASS, FAIL}
    /\ (AtVerdict /\ IsVerify /\ Len(obs) >= 1 /\ HasStatus(obs[1].out)
            /\ ~Contains(X509_OK, BeforeStatus(obs[1].out)))
          => Len(obs) = 2
    /\ (AtVerdict /\ IsVerify /\ Len(obs) = 2 /\ HasStatus(obs[2].out)
            /\ (~Contains(DTCP_CERT_OK, BeforeStatus(obs[2].out))
                  \/ ~Contains(CVP2_BIT_SET, BeforeStatus(obs[2].out))))
          => verdicts[idx] = FAIL

C15_Witness ==
    /\ AtVerdict /\ IsClient /\ Len(obs) = 1
    /\ HasStatus(obs[1].out)
    /\ Contains(UNKNOWN_DTCP, obs[1].out)
    /\ ~Contains(UNKNOWN_DTCP, BeforeStatus(obs[1].out))
    /\ verdicts[idx] = PASS
\* The credential of test i is the one of this library and key setting.
UsesCredential(i, library, key) ==
    /\ tests[i].library \in Setting(library)
    /\ tests[i].key \in Setting(key)

\* C16: the suite has the server verification first and the four client
\* tests after it; of the client tests only the one with the production CVP2
\* credential expects success, the ones with the production credential
\* without the CVP2 bit and with the two test credentials expect rejection.
C16_SuiteShape ==
    /\ Len(tests) = NumTests
    /\ tests[1].kind = "VerifyServerTest"
    /\ UsesCredential(1, "ProductionLibCvp2", "ProductionKeyCvp2")
    /\ \A i \in 2..NumTests : tests[i].kind = "Test"
    /\ UsesCredential(2, "ProductionLibCvp2", "ProductionKeyCvp2")
    /\ tests[2].should_succeed
    /\ UsesCredential(3, "ProductionLibNoCvp2", "ProductionKeyNoCvp2")
    /\ ~tests[3].should_succeed
    /\ UsesCredential(4, "TestLibCvp2", "TestKeyCvp2")
    /\ ~tests[4].should_succeed
    /\ UsesCredential(5, "TestLibNoCvp2", "TestKeyNoCvp2")
    /\ ~tests[5].should_succeed

C16_Witness ==
    /\ pc = "finished"
    /\ \A i \in 1..NumTests : tests[i].key # None /\ verdicts[i] = PASS
\* The connection evaluation of one invocation of a test expecting success:
\* it failed when the exit code is not 0 or no status line was printed.
ConnectionFailed(o) == o.rc # 0 \/ ~HasStatus(o.out)

\* The verdict as a function of the test's inputs (class, key, expectation)
\* and of its observations (exit code and transcript of each invocation);
\* nothing else occurs in it.
VerdictFunction(t, o) ==
    IF t.key = None THEN SKIPPED
    ELSE IF t.kind = "Test"
    THEN IF SanityViolated(SearchedPart(o[1].out)) THEN ENVIRONMENT_ERROR
         ELSE IF \/ o[1].rc = 0 /\ HasStatus(o[1].out) /\ t.should_succeed
                 \/ o[1].rc # 0 /\ ~t.should_succeed
              THEN PASS ELSE FAIL
    ELSE IF Contains(X509_OK, SearchedPart(o[1].out))
    THEN IF ConnectionFailed(o[1]) THEN FAIL ELSE PASS
    ELSE IF \/ ConnectionFailed(o[1])
            \/ ~Contains(DTCP_CERT_OK, SearchedPart(o[2].out))
            \/ ~Contains(CVP2_BIT_SET, SearchedPart(o[2].out))
         THEN FAIL ELSE PASS

\* The number of invocations is a function of the same data.
InvocationsFunction(t, o) ==
    IF t.key = None THEN 0
    ELSE IF t.kind = "Test" THEN 1
    ELSE IF Contains(X509_OK, SearchedPart(o[1].out)) THEN 1 ELSE 2

\* C17: the verdict of a test is determined by its inputs and observations:
\* it is the value of one function of them, whatever ran before and whatever
\* the log directory held, so two executions with the same inputs and the
\* same observations get the same verdict.
C17_VerdictIsFunction ==
    (idx <= NumTests /\ AtVerdict) =>
        /\ Len(obs) = InvocationsFunction(cur, obs)
        /\ verdicts[idx] = VerdictFunction(cur, obs)

C17_Witness ==
    /\ AtVerdict /\ idx = 4
    /\ verdicts[3] = PASS
    /\ Len(obs) = 1 /\ obs[1].rc = 0 /\ HasStatus(obs[1].out)
    /\ LogDirectory[tests[3].log_name] # LogDirectory[tests[4].log_name]
    /\ verdicts[4] = FAIL
====
